---- MODULE Spec2Model ----
(***************************************************************************)
(* Model of the odilia accessibility cache (cache/src/lib.rs) and of the   *)
(* object event appliers (odilia/src/events/object.rs).                    *)
(*                                                                         *)
(* Spec      : the cache operations, interleaved get_or_create tasks.      *)
(* SpecText  : the text-changed handler run on one cached item.            *)
(***************************************************************************)
EXTENDS Integers, Sequences, FiniteSets, TLC

\* ------------------------------------------------------------------------
\* Bounds
\* ------------------------------------------------------------------------
\* longest text (in scalars) the cache-level specification lets an entry grow to
MaxLen == 2
\* largest start_pos of a text-changed event
MaxPos == 3
\* largest length field and longest text of a text-changed event
MaxEventLen == 2
\* longest children list of an item whose navigation methods are called
MaxChildren == 2

\* ------------------------------------------------------------------------
\* Option / Result values
\* ------------------------------------------------------------------------
None == [some |-> FALSE]
Some(x) == [some |-> TRUE, v |-> x]
Ok(x) == [ok |-> TRUE, v |-> x]
Err(e) == [ok |-> FALSE, err |-> e]

\* ------------------------------------------------------------------------
\* Identities
\* ------------------------------------------------------------------------
\* AccessibleId::Root and AccessibleId::Number(n)
Root == [tag |-> "Root", n |-> 0]
Number(n) == [tag |-> "Number", n |-> n]
Ids == {Root, Number(1)}
Senders == {":1.2"}

\* struct AccessiblePrimitive { id, sender }: the cache key
AccessiblePrimitive == [id : Ids, sender : Senders]

\* object paths a proxy can be configured with; the last one has no
\* accessible id in its trailing segment
Paths == {"/org/a11y/atspi/accessible/root", "/org/a11y/atspi/accessible/1", "/org/a11y"}

\* AccessibleProxy: a destination and an object path
Proxies == [destination : Senders, path : Paths]

\* HasAccessibleId::id on a proxy: the id named by the trailing path segment
ProxyId(accessible) ==
    CASE accessible.path = "/org/a11y/atspi/accessible/root" -> Ok(Root)
      [] accessible.path = "/org/a11y/atspi/accessible/1" -> Ok(Number(1))
      [] OTHER -> Err("ObjectPathConversionError")

\* TryFrom<&AccessibleProxy> for AccessiblePrimitive
TryFromProxy(accessible) ==
    IF ProxyId(accessible).ok
    THEN Ok([id |-> ProxyId(accessible).v, sender |-> accessible.destination])
    ELSE Err("NoPathId")

\* ------------------------------------------------------------------------
\* Text: a String is its sequence of Unicode scalars
\* ------------------------------------------------------------------------
\* "e_acute" stands for a scalar that takes two bytes in UTF-8
Chars == {"a", "e_acute"}
Utf8Len(c) == IF c = "e_acute" THEN 2 ELSE 1

\* all sequences over S of length at most n
RECURSIVE SeqsUpTo(_, _)
SeqsUpTo(S, n) ==
    IF n = 0 THEN {<<>>}
    ELSE LET shorter == SeqsUpTo(S, n - 1)
         IN shorter \cup {Append(s, x) : s \in {t \in shorter : Len(t) = n - 1}, x \in S}

\* str::chars().count()
CharsCount(text) == Len(text)

\* byte offset of the i-th scalar (1-based) of text
RECURSIVE ByteOffset(_, _)
ByteOffset(text, i) ==
    IF i <= 1 THEN 0 ELSE ByteOffset(text, i - 1) + Utf8Len(text[i - 1])

\* str::char_indices(): the sequence of (byte offset, scalar) pairs
CharIndices(text) == [i \in 1..Len(text) |-> <<ByteOffset(text, i), text[i]>>]

\* collect::<String>() of the (index, chr) pairs a filter_map kept: their
\* scalars, in order
Collect(kept) == [i \in 1..Len(kept) |-> kept[i][2]]

\* Vec::splice(start..end, replacement) on 0-based scalar indices
Splice(vec, start, end, replacement) ==
    SubSeq(vec, 1, start) \o replacement \o SubSeq(vec, end + 1, Len(vec))

append_to_object(original, to_append) == original \o to_append

\* insert_at_index that splices at index.. without removing the tail
insert_at_index_keep_tail(original, to_splice, index) ==
    Splice(original, index, index, to_splice)

insert_at_index(original, to_splice, index) ==
    Splice(original, index, Len(original), to_splice)

\* insert_at_range that splices over start..=end
insert_at_range_inclusive(original, to_splice, start, end) ==
    Splice(original, start, end + 1, to_splice)

insert_at_range(original, to_splice, start, end) ==
    Splice(original, start, end, to_splice)

\* update_string_insert without its prepend branch
update_string_insert_no_prepend(start_pos, update_length, updated_text, text) ==
    LET char_num == CharsCount(text)
        append == start_pos >= char_num
        insert_and_append == start_pos + update_length >= char_num
    IN IF append THEN append_to_object(text, updated_text)
       ELSE IF insert_and_append THEN insert_at_index(text, updated_text, start_pos)
       ELSE insert_at_range(text, updated_text, start_pos, start_pos + update_length)

\* update_string_insert whose append branch passes its arguments in the
\* order of the prepend branch
update_string_insert_append_swapped(start_pos, update_length, updated_text, text) ==
    LET char_num == CharsCount(text)
        prepend == start_pos = 0
        append == start_pos >= char_num
        insert_and_append == start_pos + update_length >= char_num
    IN IF prepend \/ append THEN append_to_object(updated_text, text)
       ELSE IF insert_and_append THEN insert_at_index(text, updated_text, start_pos)
       ELSE insert_at_range(text, updated_text, start_pos, start_pos + update_length)

\* the closure returned by update_string_insert, as the new value of
\* cache_item.text
update_string_insert(start_pos, update_length, updated_text, text) ==
    LET char_num == CharsCount(text)
        prepend == start_pos = 0
        append == start_pos >= char_num
        insert_and_append == start_pos + update_length >= char_num
    IN IF prepend THEN append_to_object(updated_text, text)
       ELSE IF append THEN append_to_object(text, updated_text)
       ELSE IF insert_and_append THEN insert_at_index(text, updated_text, start_pos)
       ELSE insert_at_range(text, updated_text, start_pos, start_pos + update_length)

\* the predicate of get_string_within_bounds on one (index, chr) pair
get_string_within_bounds(start_pos, update_length, pair) ==
    LET index == pair[1]
        is_after_start == index >= start_pos
        is_before_end == index <= start_pos + update_length
    IN is_after_start /\ is_before_end

\* the predicate of get_string_without_bounds on one (index, chr) pair
get_string_without_bounds(start_pos, update_length, pair) ==
    LET index == pair[1]
        is_before_start == index < start_pos
        is_after_end == index > start_pos + update_length
    IN is_before_start \/ is_after_end

\* current_text.char_indices().filter_map(get_string_within_bounds(..)).collect()
text_selection_from_cache(current_text, start_pos, update_length) ==
    LET Keep(pair) == get_string_within_bounds(start_pos, update_length, pair)
    IN Collect(SelectSeq(CharIndices(current_text), Keep))

\* the deletion closure of insert_or_delete, as the new value of cache_item.text
delete_closure(start_pos, update_length, text) ==
    LET Keep(pair) == get_string_without_bounds(start_pos, update_length, pair)
    IN Collect(SelectSeq(CharIndices(text), Keep))

\* ------------------------------------------------------------------------
\* Cache items
\* ------------------------------------------------------------------------
\* the states the modelled events toggle
States == {"Focused"}

\* struct CacheItem; cache is the Weak<Cache> back-reference
CacheItem(object, app, parent, index, children_num, interfaces, role, states, text, children, cache) ==
    [object |-> object, app |-> app, parent |-> parent, index |-> index,
     children_num |-> children_num, interfaces |-> interfaces, role |-> role,
     states |-> states, text |-> text, children |-> children, cache |-> cache]

\* the items the callers of add and add_all pass in
InputItems ==
    {CacheItem(k, [id |-> Root, sender |-> k.sender], [id |-> Root, sender |-> k.sender],
               0, 0, {"Accessible", "Text"}, "Paragraph", {}, t, <<>>, "weak")
        : k \in AccessiblePrimitive, t \in {<<"a">>}}

\* copy_into_cache_item: a field-by-field copy
copy_into_cache_item(c) ==
    CacheItem(c.object, c.app, c.parent, c.index, c.children_num, c.interfaces,
              c.role, c.states, c.text, c.children, c.cache)

\* ------------------------------------------------------------------------
\* The cache map: by_id is a DashMap<CacheKey, CacheItem>, held here as
\* its set of (key, item) entries
\* ------------------------------------------------------------------------
VARIABLES
    by_id,      \* Cache::by_id
    tasks,      \* the get_or_create calls in flight, one per task
    ret,        \* the operation that returned last: its argument, its value
                \* (for add and remove, the value of the map call they drop)
                \* and the number of calls it made to its closure or hydrator
    event,      \* the text-changed event being handled
    handler,    \* where text_changed::dispatch stands, and its current_text
    said,       \* what state.say was called with for the event
    seen,       \* the cached text read before the event and after each
                \* handling of it, with what the handler returned
    cache_alive \* whether an Arc<Cache> is still held: Weak::upgrade on a
                \* back-reference to the cache succeeds while it is

Tasks == {"t1", "t2"}

\* the entries stored under id
Entries(m, id) == {e \in m : e.key = id}

\* DashMap::insert that leaves an older entry of the key in its bucket
insert_keep_old(m, key, value) == m \cup {[key |-> key, item |-> value]}

\* DashMap::insert: the entry of key is replaced
insert(m, key, value) ==
    {e \in m : e.key # key} \cup {[key |-> key, item |-> value]}

\* the key add files an item under, were it taken from the wrong field
add_key_parent(cache_item) == cache_item.parent

\* cache_item.object.clone(), the key add and add_all insert under
add_key(cache_item) == cache_item.object

\* Cache::add
add(m, cache_item) == insert(m, add_key(cache_item), cache_item)

\* DashMap::remove that empties the whole shard of the key
remove_shard(m, id) == {e \in m : e.key.sender # id.sender}

\* Cache::remove
remove(m, id) == {e \in m : e.key # id}

\* DashMap::get: a read guard on the entry; alias names the entry the
\* reference points into
by_id_get(m, id) ==
    IF Entries(m, id) = {} THEN None
    ELSE Some([alias |-> {id}, item |-> (CHOOSE e \in Entries(m, id) : TRUE).item])

\* Option<&CacheItem>::cloned(): a value that aliases no entry
cloned(opt) ==
    IF opt.some THEN Some([alias |-> {}, item |-> opt.v.item]) ELSE None

\* a get that hands out the guard's reference
get_uncloned(m, id) == by_id_get(m, id)

\* Cache::get
get(m, id) == cloned(by_id_get(m, id))

\* Cache::get_all
get_all(m, ids) == [i \in 1..Len(ids) |-> get(m, ids[i])]

\* Cache::add_all
RECURSIVE add_all(_, _)
add_all(m, cache_items) ==
    IF cache_items = <<>> THEN m
    ELSE add_all(insert(m, add_key(Head(cache_items)), Head(cache_items)), Tail(cache_items))

\* Cache::remove_all
RECURSIVE remove_all(_, _)
remove_all(m, ids) ==
    IF ids = <<>> THEN m ELSE remove_all(remove(m, Head(ids)), Tail(ids))

\* the mutators passed to modify_item by the appliers, and the writes a
\* holder of a returned item can make
Apply(f, item) ==
    CASE f.kind = "insert" ->
            [item EXCEPT !.text = update_string_insert(f.start_pos, f.length, f.text, @)]
      [] f.kind = "delete" ->
            [item EXCEPT !.text = delete_closure(f.start_pos, f.length, @)]
      [] f.kind = "states_insert" -> [item EXCEPT !.states = @ \cup {f.state}]
      [] f.kind = "states_remove" -> [item EXCEPT !.states = @ \ {f.state}]
      [] f.kind = "push_child" -> [item EXCEPT !.children = Append(@, f.child)]
      [] f.kind = "set_index" -> [item EXCEPT !.index = f.index]

\* update_string_insert(..) and the deletion closure of insert_or_delete
TextClosures ==
    [kind : {"insert"}, start_pos : 0..MaxLen, length : 0..1, text : {<<"a">>}]
    \cup [kind : {"delete"}, start_pos : 0..MaxLen, length : {0}]

\* the closures of update_state
StateClosures == [kind : {"states_insert", "states_remove"}, state : States]

ApplierClosures == TextClosures \cup StateClosures

\* what a caller can do to an item it owns
OwnerWrites ==
    ApplierClosures
    \cup [kind : {"push_child"}, child : AccessiblePrimitive]
    \cup [kind : {"set_index"}, index : {-1}]

\* the closures that keep an entry within the bounds of the model
Bounded(f, item) ==
    /\ Len(Apply(f, item).text) <= MaxLen
    /\ Len(Apply(f, item).children) <= 1

\* modify_item that creates the entry it does not find
modify_item_upsert(m, id, f) ==
    LET base == CHOOSE c \in InputItems : c.object = id
    IN IF Entries(m, id) = {}
       THEN [map |-> insert(m, id, Apply(f, base)), value |-> TRUE, calls |-> 1]
       ELSE [map |-> insert(m, id, Apply(f, (CHOOSE e \in Entries(m, id) : TRUE).item)),
             value |-> TRUE, calls |-> 1]

\* modify_item that keeps the edited entry alone in the map
modify_item_alone(m, id, f) ==
    IF Entries(m, id) = {}
    THEN [map |-> m, value |-> FALSE, calls |-> 0]
    ELSE [map |-> {[key |-> id, item |-> Apply(f, (CHOOSE e \in Entries(m, id) : TRUE).item)]},
          value |-> TRUE, calls |-> 1]

\* Cache::modify_item: the map afterwards, the value returned and the
\* number of times the closure ran
modify_item(m, id, f) ==
    IF Entries(m, id) = {}
    THEN [map |-> m, value |-> FALSE, calls |-> 0]
    ELSE LET cache_item == (CHOOSE e \in Entries(m, id) : TRUE).item
         IN [map |-> {e \in m : e.key # id} \cup {[key |-> id, item |-> Apply(f, cache_item)]},
             value |-> TRUE, calls |-> 1]

\* ------------------------------------------------------------------------
\* Hydration
\* ------------------------------------------------------------------------
\* what the bus answers to the calls of one hydration: fail names the call
\* that returns an error, text_iface whether to_text() succeeds
BusReplies ==
    [fail : {"none", "join", "get_all_text", "name"}, text_iface : BOOLEAN,
     all_text : {<<>>, <<"a">>}, name : {<<>>}, states : {{}},
     interfaces : {{"Accessible", "Text"}}]

\* accessible_to_cache_item that skips the conversion of the proxy and
\* files the item under its parent's identity
accessible_to_cache_item_parent(accessible, cache, bus) ==
    LET parent == [id |-> Root, sender |-> accessible.destination]
    IN IF bus.fail = "join" \/ ~TryFromProxy(accessible).ok THEN Err("Zbus")
       ELSE Ok(CacheItem(parent, parent, parent, 0, 0, bus.interfaces, "Paragraph",
                         bus.states, bus.all_text, <<>>, cache))

\* accessible_to_cache_item that takes an empty text when the text cannot
\* be read
accessible_to_cache_item_default_text(accessible, cache, bus) ==
    LET root == [id |-> Root, sender |-> accessible.destination]
        object == TryFromProxy(accessible)
    IN IF bus.fail = "join" THEN Err("Zbus")
       ELSE IF ~object.ok THEN Err("PrimitiveConversionError")
       ELSE Ok(CacheItem(object.v, root, root, 0, 0, bus.interfaces, "Paragraph",
                         bus.states,
                         IF bus.fail # "none" THEN <<>>
                         ELSE IF bus.text_iface THEN bus.all_text ELSE bus.name,
                         <<>>, cache))

\* accessible_to_cache_item
accessible_to_cache_item(accessible, cache, bus) ==
    LET app == [id |-> Root, sender |-> accessible.destination]
        parent == [id |-> Root, sender |-> accessible.destination]
        text == IF bus.text_iface
                THEN (IF bus.fail = "get_all_text" THEN Err("Zbus") ELSE Ok(bus.all_text))
                ELSE (IF bus.fail = "name" THEN Err("Zbus") ELSE Ok(bus.name))
        object == TryFromProxy(accessible)
    IN IF bus.fail = "join" THEN Err("Zbus")
       ELSE IF ~text.ok THEN text
       ELSE IF ~object.ok THEN Err("PrimitiveConversionError")
       ELSE Ok(CacheItem(object.v, app, parent, 0, 0, bus.interfaces, "Paragraph",
                         bus.states, text.v, <<>>, cache))

\* ------------------------------------------------------------------------
\* Spec: the operations of Cache, called in any order; get_or_create is
\* suspended while accessible_to_cache_item waits for the bus
\* ------------------------------------------------------------------------
cacheVars == <<by_id, tasks, ret>>
textVars == <<event, handler, said, seen>>
vars == <<handler, by_id, tasks, ret, event, said, seen, cache_alive>>

Idle == [pc |-> "idle"]

\* text_changed::dispatch is not running and has handled round events
HandlerIdle(round) == [pc |-> "idle", round |-> round, current_text |-> <<>>]

Returned(op, arg, value, calls) ==
    [op |-> op, arg |-> arg, value |-> value, calls |-> calls]

\* get_or_create returns after accessible_to_cache_item got the answers bus
Hydrated(accessible, bus, value, calls) ==
    [op |-> "get_or_create", arg |-> accessible, value |-> value, calls |-> calls,
     bus |-> bus]

\* Cache::new: an empty map
Init ==
    /\ by_id = {}
    /\ tasks = [t \in Tasks |-> Idle]
    /\ ret = Returned("new", None, None, 0)
    /\ event = None
    /\ handler = HandlerIdle(0)
    /\ said = None
    /\ seen = <<>>
    /\ cache_alive = TRUE

Add(cache_item) ==
    /\ by_id' = add(by_id, cache_item)
    /\ ret' = Returned("add", cache_item, by_id_get(by_id, add_key(cache_item)), 0)
    /\ UNCHANGED <<tasks, textVars, cache_alive>>

AddAll(cache_items) ==
    /\ by_id' = add_all(by_id, cache_items)
    /\ ret' = Returned("add_all", cache_items, None, 0)
    /\ UNCHANGED <<tasks, textVars, cache_alive>>

Remove(id) ==
    /\ by_id' = remove(by_id, id)
    /\ ret' = Returned("remove", id, by_id_get(by_id, id), 0)
    /\ UNCHANGED <<tasks, textVars, cache_alive>>

RemoveAll(ids) ==
    /\ by_id' = remove_all(by_id, ids)
    /\ ret' = Returned("remove_all", ids, None, 0)
    /\ UNCHANGED <<tasks, textVars, cache_alive>>

Get(id) ==
    /\ ret' = Returned("get", id, get(by_id, id), 0)
    /\ UNCHANGED <<by_id, tasks, textVars, cache_alive>>

GetAll(ids) ==
    /\ ret' = Returned("get_all", ids, get_all(by_id, ids), 0)
    /\ UNCHANGED <<by_id, tasks, textVars, cache_alive>>

ModifyItem(id, f) ==
    /\ \A e \in Entries(by_id, id) : Bounded(f, e.item)
    /\ LET r == modify_item(by_id, id, f)
       IN /\ by_id' = r.map
          /\ ret' = Returned("modify_item", [id |-> id, f |-> f], r.value, r.calls)
    /\ UNCHANGED <<tasks, textVars, cache_alive>>

\* the caller of get writes to the item it was given
MutateReturned(f) ==
    /\ ret.op = "get"
    /\ ret.value.some
    /\ Bounded(f, ret.value.v.item)
    /\ ret' = Returned("mutate_returned", ret.arg,
                       Some([ret.value.v EXCEPT !.item = Apply(f, @)]), 0)
    /\ by_id' = {[key |-> e.key,
                  item |-> IF e.key \in ret.value.v.alias THEN Apply(f, e.item) ELSE e.item]
                    : e \in by_id}
    /\ UNCHANGED <<tasks, textVars, cache_alive>>

\* get_or_create that hydrates without looking the identity up
GetOrCreateBegin_no_lookup(t, accessible) ==
    /\ tasks[t].pc = "idle"
    /\ UNCHANGED <<textVars, cache_alive>>
    /\ IF ~TryFromProxy(accessible).ok
       THEN /\ ret' = Returned("get_or_create", accessible, Err(TryFromProxy(accessible).err), 0)
            /\ UNCHANGED <<by_id, tasks>>
       ELSE /\ tasks' = [tasks EXCEPT ![t] = [pc |-> "hydrating", accessible |-> accessible]]
            /\ UNCHANGED <<by_id, ret>>

\* get_or_create up to its first suspension: the conversion of the proxy,
\* the lookup, and on a miss the start of the hydration
GetOrCreateBegin(t, accessible) ==
    /\ tasks[t].pc = "idle"
    /\ UNCHANGED <<textVars, cache_alive>>
    /\ LET primitive == TryFromProxy(accessible)
       IN IF ~primitive.ok
          THEN /\ ret' = Returned("get_or_create", accessible, Err(primitive.err), 0)
               /\ UNCHANGED <<by_id, tasks, textVars, cache_alive>>
          ELSE IF get(by_id, primitive.v).some
          THEN /\ ret' = Returned("get_or_create", accessible,
                                  Ok(get(by_id, primitive.v).v.item), 0)
               /\ UNCHANGED <<by_id, tasks, textVars, cache_alive>>
          ELSE /\ tasks' = [tasks EXCEPT ![t] = [pc |-> "hydrating", accessible |-> accessible]]
               /\ UNCHANGED <<by_id, ret>>

\* get_or_create from the return of accessible_to_cache_item to its own
GetOrCreateEnd(t, bus) ==
    /\ tasks[t].pc = "hydrating"
    /\ LET accessible == tasks[t].accessible
           cache_item == accessible_to_cache_item(accessible, "weak", bus)
       IN IF ~cache_item.ok
          THEN /\ ret' = Hydrated(accessible, bus, cache_item, 0)
               /\ UNCHANGED by_id
          ELSE /\ by_id' = add(by_id, copy_into_cache_item(cache_item.v))
               /\ ret' = Hydrated(accessible, bus, cache_item, 1)
    /\ tasks' = [tasks EXCEPT ![t] = Idle]
    /\ UNCHANGED <<textVars, cache_alive>>

Batches(S) == SeqsUpTo(S, 2)

Next ==
    \/ \E cache_item \in InputItems : Add(cache_item)
    \/ \E cache_items \in Batches(InputItems) : AddAll(cache_items)
    \/ \E id \in AccessiblePrimitive : Remove(id)
    \/ \E ids \in Batches(AccessiblePrimitive) : RemoveAll(ids)
    \/ \E id \in AccessiblePrimitive : Get(id)
    \/ \E ids \in Batches(AccessiblePrimitive) : GetAll(ids)
    \/ \E id \in AccessiblePrimitive, f \in ApplierClosures : ModifyItem(id, f)
    \/ \E f \in OwnerWrites : MutateReturned(f)
    \/ \E t \in Tasks, accessible \in Proxies : GetOrCreateBegin(t, accessible)
    \/ \E t \in Tasks, bus \in BusReplies : GetOrCreateEnd(t, bus)

Spec == Init /\ [][Next]_vars

\* ------------------------------------------------------------------------
\* Properties of the cache operations
\* ------------------------------------------------------------------------
\* the step in which task t's get_or_create returns from a hydration that
\* succeeded
HydrationReturns(t) ==
    /\ tasks[t].pc = "hydrating"
    /\ tasks'[t].pc = "idle"
    /\ ret'.value.ok

\* the identity get_or_create derived for task t's proxy
HydratedId(t) == TryFromProxy(tasks[t].accessible).v

\* C1: the cache holds at most one item per identity, and after add(item)
\* get(item.object) returns the item just added
C1_UniqueKeys ==
    /\ \A e1 \in by_id, e2 \in by_id : e1.key = e2.key => e1 = e2
    /\ ret.op = "add" =>
          /\ Cardinality(Entries(by_id, ret.arg.object)) = 1
          /\ get(by_id, ret.arg.object) = Some([alias |-> {}, item |-> ret.arg])

\* an add has replaced a different item stored under the same identity
C1_Witness ==
    /\ ret.op = "add"
    /\ ret.value.some
    /\ ret.value.v.item # ret.arg
    /\ get(by_id, ret.arg.object).v.item = ret.arg

\* C2: every stored item's object field equals the key it is stored under
C2_ObjectIsKey == \A e \in by_id : e.item.object = e.key

\* both identities are cached, one entry edited by a text and a state applier
C2_Witness ==
    /\ Cardinality(by_id) = 2
    /\ \E e \in by_id : e.item.states = {"Focused"} /\ Len(e.item.text) = MaxLen
    /\ ret.op = "modify_item"
    /\ ret.value

\* C3: a get_or_create that hydrates returns an item whose object is the
\* identity derived from the proxy, and leaves exactly one entry under that
\* identity, the returned item, adding one entry when there was none and
\* touching no other identity
C3_HydrateOnMiss ==
    [][\A t \in Tasks : HydrationReturns(t) =>
          /\ ret'.value.v.object = HydratedId(t)
          /\ Entries(by_id', HydratedId(t)) = {[key |-> HydratedId(t), item |-> ret'.value.v]}
          /\ {e \in by_id' : e.key # HydratedId(t)} = {e \in by_id : e.key # HydratedId(t)}
          /\ (Entries(by_id, HydratedId(t)) = {} =>
                Cardinality(by_id') = Cardinality(by_id) + 1)]_vars

\* a hydration for the numbered object has returned next to a cached root
C3_Witness ==
    /\ ret.op = "get_or_create"
    /\ ret.calls = 1
    /\ ret.value.ok
    /\ ret.value.v.object.id = Number(1)
    /\ Cardinality(by_id) = 2

\* C4: a hydration that returns never writes over an entry that appeared
\* under its identity after its own lookup missed
C4_SingleWriter ==
    [][\A t \in Tasks : HydrationReturns(t) => Entries(by_id, HydratedId(t)) = {}]_vars

\* C5: modify_item on an absent identity returns false, does not run the
\* closure and changes nothing; on a present one it runs the closure once on
\* the stored item and returns true
C5_ModifyItem ==
    [][(ret'.op = "modify_item" /\ tasks' = tasks) =>
          LET id == ret'.arg.id
              f == ret'.arg.f
          IN IF Entries(by_id, id) = {}
             THEN ret'.value = FALSE /\ ret'.calls = 0 /\ by_id' = by_id
             ELSE /\ ret'.value = TRUE
                  /\ ret'.calls = 1
                  /\ \A e \in Entries(by_id, id) :
                        by_id' = (by_id \ {e}) \cup {[key |-> id, item |-> Apply(f, e.item)]}]_vars

\* modify_item has returned false for an identity missing from a cache that
\* holds the other one
C5_Witness ==
    /\ ret.op = "modify_item"
    /\ ret.value = FALSE
    /\ Entries(by_id, ret.arg.id) = {}
    /\ by_id # {}

\* C6: a write to the item returned by get changes nothing in the cache: a
\* get of the same identity afterwards returns what the first one returned
C6_GetIsDetached ==
    [][(ret.op = "get" /\ ret'.op = "mutate_returned") =>
          /\ by_id' = by_id
          /\ get(by_id', ret'.arg) = ret.value]_vars

\* the holder's item has been changed and differs from the stored one
C6_Witness ==
    /\ ret.op = "mutate_returned"
    /\ get(by_id, ret.arg).some
    /\ get(by_id, ret.arg).v.item.text # ret.value.v.item.text

\* C7: remove(id) deletes the entry of id and nothing else, and is a no-op
\* when id is absent; an absent identity stays absent until an add or a
\* get_or_create stores it, and while it is absent get returns None and
\* modify_item returns false
C7_Remove ==
    [][/\ (ret'.op = "remove" /\ tasks' = tasks) =>
            /\ Entries(by_id', ret'.arg) = {}
            /\ by_id' = by_id \ Entries(by_id, ret'.arg)
       /\ \A id \in AccessiblePrimitive :
            (Entries(by_id, id) = {} /\ Entries(by_id', id) # {}) =>
                ret'.op \in {"add", "add_all", "get_or_create"}
       /\ (ret'.op = "get" /\ Entries(by_id, ret'.arg) = {}) => ret'.value = None
       /\ (ret'.op = "modify_item" /\ Entries(by_id, ret'.arg.id) = {}) =>
            ret'.value = FALSE]_vars

\* remove has deleted an entry and the entry of the other identity is there
C7_Witness ==
    /\ ret.op = "remove"
    /\ ret.value.some
    /\ Entries(by_id, ret.arg) = {}
    /\ by_id # {}

\* get_or_create is called in this step with a proxy whose identity is in
\* the cache, and returns at once or suspends
CalledOnCached(t) ==
    /\ tasks[t].pc = "idle"
    /\ \/ tasks'[t].pc = "hydrating"
       \/ ret'.op = "get_or_create" /\ tasks' = tasks
    /\ LET accessible == IF tasks'[t].pc = "hydrating" THEN tasks'[t].accessible
                         ELSE ret'.arg
       IN /\ TryFromProxy(accessible).ok
          /\ Entries(by_id, TryFromProxy(accessible).v) # {}

\* C25: get_or_create on a proxy whose identity is cached returns the stored
\* item in the same step, starts no hydration and leaves every entry of the
\* cache as it was
C25_CachedHit ==
    [][\A t \in Tasks : CalledOnCached(t) =>
          /\ tasks' = tasks
          /\ ret'.calls = 0
          /\ Entries(by_id, TryFromProxy(ret'.arg).v)
                 = {[key |-> TryFromProxy(ret'.arg).v, item |-> ret'.value.v]}
          /\ by_id' = by_id]_vars

\* get_or_create has returned, without hydrating, an item that a state
\* applier had edited in the cache
C25_Witness ==
    /\ ret.op = "get_or_create"
    /\ ret.calls = 0
    /\ ret.value.ok
    /\ ret.value.v.states = {"Focused"}
    /\ Entries(by_id, ret.value.v.object) = {[key |-> ret.value.v.object, item |-> ret.value.v]}
    /\ Cardinality(by_id) = 2

\* one of the bus calls accessible_to_cache_item makes has failed: one of
\* the joined eight, get_all_text of an object with the Text interface, or
\* name of an object without it
BusCallFailed(bus) ==
    \/ bus.fail = "join"
    \/ bus.text_iface /\ bus.fail = "get_all_text"
    \/ ~bus.text_iface /\ bus.fail = "name"

\* C26: when a bus call of the hydration fails, get_or_create returns the
\* error and the cache is as it was: nothing is stored for the identity
C26_HydrationFails ==
    [][\A t \in Tasks :
          (/\ tasks[t].pc = "hydrating"
           /\ tasks'[t].pc = "idle"
           /\ BusCallFailed(ret'.bus)) =>
              /\ ret'.value = Err("Zbus")
              /\ by_id' = by_id]_vars

\* the text read of a hydration has failed, get_or_create has returned the
\* error and the identity is not in the cache, which holds the other one
C26_Witness ==
    /\ ret.op = "get_or_create"
    /\ ret.calls = 0
    /\ ret.value = Err("Zbus")
    /\ ret.bus.fail = "get_all_text"
    /\ Entries(by_id, TryFromProxy(ret.arg).v) = {}
    /\ by_id # {}

\* ------------------------------------------------------------------------
\* SpecText: text_changed::dispatch handles one event on one object, and
\* then the same event once more
\* ------------------------------------------------------------------------
\* the texts of the worked examples: "ia!" and a string of ten characters
ExampleTexts ==
    {<<"i", "a", "!">>, <<"0", "1", "2", "3", "4", "5", "6", "7", "8", "9">>}

\* the texts the object can hold when its event arrives
Texts == SeqsUpTo(Chars, MaxLen) \cup ExampleTexts

\* TextChangedEvent::kind: the kinds applications send, and one that
\* text_changed::dispatch does not know
Kinds == {"insert", "delete", "replace"}
SystemKinds == {"insert/system", "delete/system"}

\* the object every modelled event is about
EventSender == ":1.2"
EventPath == "/org/a11y/atspi/accessible/1"

\* inserts of the worked examples: "Odil" at 0 with length 4, and an
\* insert at index 100
ExampleEvents ==
    {[sender |-> Ok(Some(EventSender)), path |-> Some(EventPath), kind |-> "insert",
      start_pos |-> 0, length |-> 4, text |-> <<"O", "d", "i", "l">>],
     [sender |-> Ok(Some(EventSender)), path |-> Some(EventPath), kind |-> "insert",
      start_pos |-> 100, length |-> 2, text |-> <<"a", "e_acute">>]}

\* TextChangedEvent: sender(), path(), kind(), start_pos(), length(), text()
TextChangedEvents ==
    [sender : {Ok(Some(EventSender))}, path : {Some(EventPath)}, kind : Kinds,
     start_pos : 0..MaxPos, length : 0..MaxEventLen, text : SeqsUpTo(Chars, MaxEventLen)]
    \cup [sender : {Ok(Some(EventSender))}, path : {Some(EventPath)}, kind : SystemKinds,
          start_pos : 0..MaxPos, length : {1}, text : SeqsUpTo(Chars, 1)]
    \cup ExampleEvents

\* ObjectPath -> AccessibleId
PathToId(path) == ProxyId([destination |-> "", path |-> path])

\* from_event that looks at the path before the sender
from_event_path_first(e) ==
    IF ~e.path.some THEN Err("NoPathId")
    ELSE IF ~PathToId(e.path.v).ok THEN Err("Zvariant")
    ELSE IF ~e.sender.ok THEN Err("ErrSender")
    ELSE IF ~e.sender.v.some THEN Err("NoSender")
    ELSE Ok([id |-> PathToId(e.path.v).v, sender |-> e.sender.v.v])

\* AccessiblePrimitive::from_event
from_event(e) ==
    IF ~e.sender.ok THEN Err("ErrSender")
    ELSE IF ~e.sender.v.some THEN Err("NoSender")
    ELSE IF ~e.path.some THEN Err("NoPathId")
    ELSE IF ~PathToId(e.path.v).ok THEN Err("Zvariant")
    ELSE Ok([id |-> PathToId(e.path.v).v, sender |-> e.sender.v.v])

\* ScreenReaderState::new_accessible: a proxy for the object of the event
new_accessible(e) ==
    IF e.sender.ok /\ e.sender.v.some /\ e.path.some
    THEN Ok([destination |-> e.sender.v.v, path |-> e.path.v])
    ELSE Err("NoSender")

\* Cache::get_or_create run to its return: the map afterwards and the value
get_or_create(m, accessible, cache, bus) ==
    LET primitive == TryFromProxy(accessible)
        cache_item == accessible_to_cache_item(accessible, cache, bus)
    IN IF ~primitive.ok THEN [map |-> m, value |-> Err(primitive.err)]
       ELSE IF get(m, primitive.v).some
       THEN [map |-> m, value |-> Ok(get(m, primitive.v).v.item)]
       ELSE IF ~cache_item.ok THEN [map |-> m, value |-> cache_item]
       ELSE [map |-> add(m, copy_into_cache_item(cache_item.v)), value |-> cache_item]

\* the answer of accessible.get_attributes(): the "live" and "atomic" entries
AttributeReplies ==
    {Err("Zbus")}
    \cup {Ok([live |-> l, atomic |-> a]) :
            l \in {None, Some("off"), Some("polite"), Some("assertive")},
            a \in {None, Some("true"), Some("false")}}

\* serde_plain::from_str::<AriaLive>: AriaLive is an untagged enum, whose
\* unit variants Off, Assertive and Polite accept only a unit value; a
\* string is taken by the one variant that holds a String
ParseAriaLive(live) == Ok([variant |-> "Other", value |-> live])

\* get_live_state that takes a missing live attribute for an empty one
get_live_state_default(attributes) ==
    IF ~attributes.live.some THEN ParseAriaLive("")
    ELSE ParseAriaLive(attributes.live.v)

\* get_live_state
get_live_state(attributes) ==
    IF ~attributes.live.some THEN Err("NoAttributeError(live)")
    ELSE ParseAriaLive(attributes.live.v)

\* live_to_priority
live_to_priority(live_str) ==
    CASE live_str.variant = "Assertive" -> "Important"
      [] live_str.variant = "Polite" -> "Notification"
      [] OTHER -> "Message"

\* serde_plain::from_str::<AriaAtomic>: a transparent bool
ParseAriaAtomic(atomic) ==
    CASE atomic = "true" -> Ok(TRUE)
      [] atomic = "false" -> Ok(FALSE)
      [] OTHER -> Err("SerdeError")

\* get_atomic_state
get_atomic_state(attributes) ==
    IF ~attributes.atomic.some THEN Err("NoAttributeError(atomic)")
    ELSE ParseAriaAtomic(attributes.atomic.v)

\* speak_insertion up to its call of state.say: the (priority, text) it
\* says, or the error it returns
speak_insertion(e, attributes, cache_text) ==
    LET live == get_live_state(attributes)
        atomic == get_atomic_state(attributes)
    IN IF ~live.ok THEN live
       ELSE IF ~atomic.ok THEN atomic
       ELSE Ok([priority |-> live_to_priority(live.v),
                text |-> IF atomic.v THEN cache_text ELSE e.text])

\* insert_has_not_occured of insert_or_delete
insert_has_not_occured(is_insert, current_text, e) ==
    LET selection_matches_update ==
            text_selection_from_cache(current_text, e.start_pos, e.length) = e.text
    IN is_insert /\ ~selection_matches_update

\* remove_has_not_occured of insert_or_delete
remove_has_not_occured(is_insert, current_text, e) ==
    LET selection_matches_update ==
            text_selection_from_cache(current_text, e.start_pos, e.length) = e.text
    IN ~is_insert /\ selection_matches_update

\* the closure insert_or_delete passes to modify_item
InsertClosure(e) ==
    [kind |-> "insert", start_pos |-> e.start_pos, length |-> e.length, text |-> e.text]
DeleteClosure(e) ==
    [kind |-> "delete", start_pos |-> e.start_pos, length |-> e.length]

\* insert_or_delete from the guard to its return: the map afterwards and
\* what returned last. modify_item is called for its effect on the entry
\* (update_state of the same file uses the bool it returns).
apply_edit(m, object, e, current_text, is_insert) ==
    IF insert_has_not_occured(is_insert, current_text, e)
    THEN LET r == modify_item(m, object, InsertClosure(e))
         IN [map |-> r.map,
             ret |-> Returned("modify_item", [id |-> object, f |-> InsertClosure(e)],
                              r.value, r.calls)]
    ELSE IF remove_has_not_occured(is_insert, current_text, e)
    THEN LET r == modify_item(m, object, DeleteClosure(e))
         IN [map |-> r.map,
             ret |-> Returned("modify_item", [id |-> object, f |-> DeleteClosure(e)],
                              r.value, r.calls)]
    ELSE [map |-> m, ret |-> Returned("insert_or_delete", e, Ok("unit"), 0)]

\* the cached text of the object of the event, as a reader gets it
CachedText(m, e) == 
    LET item == get(m, from_event(e).v)
    IN IF item.some THEN Some(item.v.item.text) ELSE None

\* the object is cached with one of the texts, or not cached yet
InitText ==
    /\ by_id \in {{}} \cup
          {{[key |-> c.object, item |-> [c EXCEPT !.text = t]]} :
              c \in {i \in InputItems : i.object.id = Number(1)}, t \in Texts}
    /\ tasks = [t \in Tasks |-> Idle]
    /\ ret = Returned("new", None, None, 0)
    /\ event = None
    /\ handler = HandlerIdle(0)
    /\ said = None
    /\ seen = <<>>
    /\ cache_alive = TRUE

\* what a reader of the cache sees once the handler has returned result
Seen(m, e, result) == [text |-> CachedText(m, e), result |-> result]

\* the handler returns result, the last call having returned r
HandlerReturns(m, r, result) ==
    /\ by_id' = m
    /\ ret' = r
    /\ handler' = HandlerIdle(handler.round)
    /\ seen' = Append(seen, Seen(m, event, result))

\* text_changed::dispatch to the first await of insert_or_delete, for the
\* first delivery of an event (e) or the second one of the same event
Deliver(e, round) ==
    /\ handler.pc = "idle"
    /\ handler.round = round - 1
    /\ event' = e
    /\ said' = None
    /\ UNCHANGED <<tasks, cache_alive>>
    /\ LET before == IF round = 1 THEN <<Seen(by_id, e, Ok("unit"))>> ELSE seen
       IN IF e.kind \in {"insert/system", "insert", "delete/system", "delete"}
          THEN /\ handler' = [pc |-> "new_accessible", round |-> round, current_text |-> <<>>]
               /\ seen' = before
               /\ UNCHANGED <<by_id, ret>>
          ELSE /\ handler' = HandlerIdle(round)
               /\ seen' = Append(before, Seen(by_id, e, Ok("unit")))
               /\ ret' = Returned("dispatch", e, Ok("unit"), 0)
               /\ UNCHANGED by_id

TextDispatch(e) == Deliver(e, 1)

\* the same event arrives a second time
TextDispatchAgain ==
    /\ event # None
    /\ Deliver(event, 2)

\* insert_or_delete from new_accessible to get_attributes (an insert) or to
\* its return (a delete)
FetchItem(bus) ==
    /\ handler.pc = "new_accessible"
    /\ UNCHANGED <<tasks, event, said, cache_alive>>
    /\ LET is_insert == event.kind \in {"insert/system", "insert"}
           accessible == new_accessible(event)
           r == get_or_create(by_id, accessible.v, "weak", bus)
       IN IF ~r.value.ok
          THEN HandlerReturns(r.map, Returned("insert_or_delete", event, r.value, 0), r.value)
          ELSE IF is_insert
          THEN /\ handler' = [handler EXCEPT !.pc = "get_attributes",
                                             !.current_text = r.value.v.text]
               /\ by_id' = r.map
               /\ UNCHANGED <<ret, seen>>
          ELSE LET done == apply_edit(r.map, r.value.v.object, event, r.value.v.text, FALSE)
               IN HandlerReturns(done.map, done.ret, Ok("unit"))

\* insert_or_delete at the answer of accessible.get_attributes(): an error
\* ends the handler, the attributes are handed to speak_insertion
GetAttributes(attributes) ==
    /\ handler.pc = "get_attributes"
    /\ UNCHANGED <<tasks, event, said, cache_alive>>
    /\ IF ~attributes.ok
       THEN HandlerReturns(by_id, Returned("insert_or_delete", event, attributes, 0),
                           attributes)
       ELSE /\ handler' = [handler EXCEPT !.pc = "speak_insertion"]
            /\ ret' = Returned("get_attributes", event, attributes, 0)
            /\ UNCHANGED <<by_id, seen>>

\* insert_or_delete from its call of speak_insertion to the call of
\* state.say, or to its own return when speak_insertion returns an error
\* (let _ = drops the error)
SpeakInsertion ==
    /\ handler.pc = "speak_insertion"
    /\ UNCHANGED <<tasks, event, cache_alive>>
    /\ LET spoken == speak_insertion(event, ret.value.v, handler.current_text)
           done == apply_edit(by_id, from_event(event).v, event, handler.current_text, TRUE)
       IN IF spoken.ok
          THEN /\ said' = Some(spoken.v)
               /\ handler' = [handler EXCEPT !.pc = "say"]
               /\ UNCHANGED <<by_id, ret, seen>>
          ELSE /\ HandlerReturns(done.map, done.ret, Ok("unit"))
               /\ UNCHANGED said

\* insert_or_delete from the return of state.say to its own
Say ==
    /\ handler.pc = "say"
    /\ UNCHANGED <<tasks, event, said, cache_alive>>
    /\ LET done == apply_edit(by_id, from_event(event).v, event, handler.current_text, TRUE)
       IN HandlerReturns(done.map, done.ret, Ok("unit"))

NextText ==
    \/ \E e \in TextChangedEvents : TextDispatch(e)
    \/ TextDispatchAgain
    \/ \E bus \in BusReplies : FetchItem(bus)
    \/ \E attributes \in AttributeReplies : GetAttributes(attributes)
    \/ SpeakInsertion
    \/ Say

SpecText == InitText /\ [][NextText]_vars

\* ------------------------------------------------------------------------
\* Properties of the text-changed handler
\* ------------------------------------------------------------------------
InsertKinds == {"insert", "insert/system"}

\* the step in which the handler returns after modify_item has run the
\* insert closure on the entry
AppliedInsert ==
    /\ handler.pc # "idle"
    /\ handler'.pc = "idle"
    /\ ret'.op = "modify_item"
    /\ ret'.arg.f.kind = "insert"
    /\ ret'.value = TRUE

\* the event has been handled twice and the handler returned Ok both times
HandledTwice ==
    /\ handler.pc = "idle"
    /\ handler.round = 2
    /\ Len(seen) = 3
    /\ seen[2].result.ok
    /\ seen[3].result.ok

\* C8: for an insert with start_pos at most the length of the cached text
\* and length equal to the length of its text, handling the event a second
\* time leaves the text the first handling left
C8_InsertIdempotent ==
    (/\ HandledTwice
     /\ event.kind \in InsertKinds
     /\ seen[1].text.some
     /\ event.start_pos <= Len(seen[1].text.v)
     /\ event.length = Len(event.text))
    => seen[3].text = seen[2].text

\* C9: an applied insert with start_pos = 0 makes the text the event text
\* followed by the whole previous text, whatever its length field
C9_Prepend ==
    [][(AppliedInsert /\ event.start_pos = 0) =>
          CachedText(by_id', event) = Some(event.text \o CachedText(by_id, event).v)]_vars

\* "Odil" inserted at 0 with length 4 into "ia!" has given "Odilia!"
C9_Witness ==
    /\ handler.pc = "idle"
    /\ handler.round = 1
    /\ ret.op = "modify_item"
    /\ ret.arg.f = [kind |-> "insert", start_pos |-> 0, length |-> 4,
                    text |-> <<"O", "d", "i", "l">>]
    /\ seen[1].text = Some(<<"i", "a", "!">>)
    /\ CachedText(by_id, event) = Some(<<"O", "d", "i", "l", "i", "a", "!">>)

\* C10: an applied insert with 0 < start_pos and start_pos >= n, n the
\* length of the text, makes the text the previous text followed by the
\* event text, of length n plus the length of the event text
C10_Append ==
    [][(/\ AppliedInsert
        /\ event.start_pos > 0
        /\ event.start_pos >= Len(CachedText(by_id, event).v)) =>
          /\ CachedText(by_id', event) = Some(CachedText(by_id, event).v \o event.text)
          /\ Len(CachedText(by_id', event).v) =
                Len(CachedText(by_id, event).v) + Len(event.text)]_vars

\* an insert at index 100 into the string of ten characters has given a
\* string of ten characters more than the event text
C10_Witness ==
    /\ handler.pc = "idle"
    /\ handler.round = 1
    /\ ret.op = "modify_item"
    /\ ret.arg.f.kind = "insert"
    /\ ret.arg.f.start_pos = 100
    /\ ret.value = TRUE
    /\ seen[1].text.some
    /\ Len(seen[1].text.v) = 10
    /\ Len(CachedText(by_id, event).v) = 10 + Len(event.text)
    /\ SubSeq(CachedText(by_id, event).v, 1, 10) = seen[1].text.v

\* the text of the entry when the applier is called, and after it
TextBefore == CachedText(by_id, event).v
TextAfter == CachedText(by_id', event)

\* C11: an applied insert with 0 < start_pos < n and start_pos + length >= n,
\* n the length of the text, makes the text the first start_pos characters
\* of the previous text followed by the event text
C11_InsertAndAppend ==
    [][(/\ AppliedInsert
        /\ 0 < event.start_pos
        /\ event.start_pos < Len(TextBefore)
        /\ event.start_pos + event.length >= Len(TextBefore)) =>
          TextAfter = Some(SubSeq(TextBefore, 1, event.start_pos) \o event.text)]_vars

\* an insert inside the text, reaching past its end, has replaced the tail
C11_Witness ==
    /\ handler.pc = "idle"
    /\ handler.round = 1
    /\ ret.op = "modify_item"
    /\ ret.arg.f.kind = "insert"
    /\ ret.value = TRUE
    /\ seen[1].text.some
    /\ 0 < event.start_pos
    /\ event.start_pos < Len(seen[1].text.v)
    /\ event.start_pos + event.length >= Len(seen[1].text.v)
    /\ event.text # <<>>
    /\ CachedText(by_id, event) =
          Some(SubSeq(seen[1].text.v, 1, event.start_pos) \o event.text)

\* C12: an applied insert with 0 < start_pos and start_pos + length < n
\* makes the text the first start_pos characters, the event text, and the
\* characters from start_pos + length on; and every applied insert is the
\* first of prepend, append, insert-and-append and splice whose condition
\* holds
C12_Splice ==
    [][AppliedInsert =>
          LET n == Len(TextBefore)
              start_pos == event.start_pos
              length == event.length
              head == SubSeq(TextBefore, 1, start_pos)
              rest == SubSeq(TextBefore, start_pos + length + 1, n)
          IN /\ (0 < start_pos /\ start_pos + length < n) =>
                    TextAfter = Some(head \o event.text \o rest)
             /\ TextAfter =
                    Some(IF start_pos = 0 THEN event.text \o TextBefore
                         ELSE IF start_pos >= n THEN TextBefore \o event.text
                         ELSE IF start_pos + length >= n THEN head \o event.text
                         ELSE head \o event.text \o rest)]_vars

\* an insert of length 1 at index 1 of "ia!" has replaced the "a"
C12_Witness ==
    /\ handler.pc = "idle"
    /\ handler.round = 1
    /\ ret.op = "modify_item"
    /\ ret.arg.f.kind = "insert"
    /\ ret.value = TRUE
    /\ seen[1].text = Some(<<"i", "a", "!">>)
    /\ event.start_pos = 1
    /\ event.length = 1
    /\ event.text # <<>>
    /\ CachedText(by_id, event) = Some(<<"i">> \o event.text \o <<"!">>)

DeleteKinds == {"delete", "delete/system"}

\* the step in which the handler of a delete event returns, the object
\* being cached when the event arrived
DeleteReturns ==
    /\ handler.pc # "idle"
    /\ handler'.pc = "idle"
    /\ event.kind \in DeleteKinds
    /\ CachedText(by_id, event).some

\* current[start_pos .. start_pos+length]: the length scalars from start_pos
Selection(current, start_pos, length) ==
    SubSeq(current, start_pos + 1,
           IF start_pos + length < Len(current) THEN start_pos + length ELSE Len(current))

\* the scalars of current at the indices i < start_pos or i > start_pos + length
Outside(current, start_pos, length) ==
    SubSeq(current, 1, IF start_pos < Len(current) THEN start_pos ELSE Len(current))
    \o SubSeq(current, start_pos + length + 2, Len(current))

\* C13: a delete whose text differs from current[start_pos .. start_pos+length]
\* changes nothing in the cache
C13_DeleteMismatchNoOp ==
    [][(/\ DeleteReturns
        /\ event.text # Selection(TextBefore, event.start_pos, event.length)) =>
          by_id' = by_id]_vars

\* C14: a delete whose text equals current[start_pos .. start_pos+length] is
\* applied: the text becomes its scalars at the indices i < start_pos or
\* i > start_pos + length, in order
C14_DeleteApplied ==
    [][(/\ DeleteReturns
        /\ event.text = Selection(TextBefore, event.start_pos, event.length)) =>
          /\ ret'.op = "modify_item"
          /\ ret'.value = TRUE
          /\ TextAfter = Some(Outside(TextBefore, event.start_pos, event.length))]_vars

\* str::chars().enumerate(): the (scalar index, scalar) pairs
Enumerate(text) == [i \in 1..Len(text) |-> <<i - 1, text[i]>>]

\* the edit of insert_or_delete with every offset taken as a scalar index
ScalarEdit(current, e) ==
    LET Within(pair) == get_string_within_bounds(e.start_pos, e.length, pair)
        Without(pair) == get_string_without_bounds(e.start_pos, e.length, pair)
        matches == Collect(SelectSeq(Enumerate(current), Within)) = e.text
    IN IF e.kind \in InsertKinds
       THEN (IF matches THEN current
             ELSE update_string_insert(e.start_pos, e.length, e.text, current))
       ELSE (IF matches THEN Collect(SelectSeq(Enumerate(current), Without))
             ELSE current)

\* C15: the guard, the insertion and the deletion read every offset as a
\* scalar index: the text an insert or delete event leaves is the one the
\* same edit leaves when it counts scalars, whatever their byte widths
C15_ScalarIndex ==
    [][(/\ handler.pc # "idle"
        /\ handler'.pc = "idle"
        /\ seen'[Len(seen')].result.ok
        /\ CachedText(by_id, event).some) =>
          TextAfter = Some(ScalarEdit(TextBefore, event))]_vars

\* the attributes accessible.get_attributes() answered, while the handler
\* is in speak_insertion or in state.say
Attributes == ret.value.v

\* the step in which insert_or_delete returns from state.say, applies the
\* insert and returns
SayReturns ==
    /\ handler.pc = "say"
    /\ handler'.pc = "idle"

\* C21: with atomic true an insert announces the whole text of the item as
\* it is after the insert has been applied, with atomic false it announces
\* exactly the text of the event; a delete event announces nothing
C21_AnnouncedText ==
    [][/\ SayReturns =>
            said.v.text = IF Attributes.atomic = Some("true")
                          THEN TextAfter.v
                          ELSE event.text
       /\ (handler'.pc = "idle" /\ event'.kind \in DeleteKinds) => said' = None]_vars

\* the priority the live attribute asks for
LivePriority(live) ==
    CASE live = Some("assertive") -> "Important"
      [] live = Some("polite") -> "Notification"
      [] OTHER -> "Message"

\* C22: what an insert announces has the priority of its live attribute:
\* Important for assertive, Notification for polite, Message for off or for
\* no live attribute
C22_LivePriority ==
    (handler.pc = "say" /\ said.some) =>
        said.v.priority = LivePriority(Attributes.live)

\* the handler is about to call speak_insertion with attributes that lack
\* live or atomic
MissingAttribute ==
    /\ handler.pc = "speak_insertion"
    /\ (~Attributes.live.some \/ ~Attributes.atomic.some)

\* what insert_or_delete leaves of the text current when it handles the
\* insert event e and the attributes are all there
InsertOutcome(current, e) ==
    IF text_selection_from_cache(current, e.start_pos, e.length) = e.text
    THEN current
    ELSE update_string_insert(e.start_pos, e.length, e.text, current)

\* C23: an insert event whose attributes lack live or atomic is not
\* announced (speak_insertion ends with NoAttributeError before state.say),
\* the handler returns Ok, and the text is updated as it is when the
\* attributes are there and the announcement is made
C23_MissingAttribute ==
    [][/\ (MissingAttribute /\ handler' # handler) =>
            /\ speak_insertion(event, Attributes, handler.current_text)
                   \in {Err("NoAttributeError(live)"), Err("NoAttributeError(atomic)")}
            /\ handler'.pc = "idle"
            /\ said' = None
            /\ seen'[Len(seen')].result = Ok("unit")
            /\ TextAfter = Some(InsertOutcome(TextBefore, event))
       /\ SayReturns => TextAfter = Some(InsertOutcome(TextBefore, event))]_vars

\* "Odil" inserted at 0 into "ia!" without a live attribute: nothing was
\* said and the text is "Odilia!"
C23_Witness ==
    /\ handler.pc = "idle"
    /\ handler.round = 1
    /\ event.kind = "insert"
    /\ said = None
    /\ ret.op = "modify_item"
    /\ ret.arg.f.kind = "insert"
    /\ seen[1].text = Some(<<"i", "a", "!">>)
    /\ seen[2] = [text |-> Some(<<"O", "d", "i", "l", "i", "a", "!">>), result |-> Ok("unit")]

\* ------------------------------------------------------------------------
\* SpecState: state_changed::dispatch handles one event
\* ------------------------------------------------------------------------
\* the atspi::State tags of the modelled objects
StateTags == {"Enabled", "Showing", "Focused"}

\* serde_plain::from_str::<State>(event.kind())
ParseState(kind) ==
    CASE kind = "enabled" -> Ok("Enabled")
      [] kind = "showing" -> Ok("Showing")
      [] kind = "focused" -> Ok("Focused")
      [] OTHER -> Err("SerdeError")

\* StateChangedEvent: sender(), path(), kind(), enabled()
StateChangedEvents ==
    [sender : {Ok(Some(EventSender)), Ok(None), Err("Zbus")},
     path : {Some(p) : p \in Paths} \cup {None},
     kind : {"focused", "showing", "bogus"},
     enabled : {0, 1}]

\* update_state that inserts the state of an active event and removes the
\* state of an inactive one
update_state_direct(m, a11y, state_changed, active) ==
    IF active
    THEN modify_item(m, a11y, [kind |-> "states_insert", state |-> state_changed])
    ELSE modify_item(m, a11y, [kind |-> "states_remove", state |-> state_changed])

\* state_changed::update_state: the map afterwards, the bool of modify_item
\* and the number of times the closure ran
update_state(m, a11y, state_changed, active) ==
    IF active
    THEN modify_item(m, a11y, [kind |-> "states_remove", state |-> state_changed])
    ELSE modify_item(m, a11y, [kind |-> "states_insert", state |-> state_changed])

\* the caches a state-changed event can find: the numbered object absent or
\* cached with any set of states, the root absent or cached
StateCaches ==
    {one \cup two :
        one \in {{}} \cup
            {{[key |-> c.object, item |-> [c EXCEPT !.states = s]]} :
                c \in {i \in InputItems : i.object.id = Number(1)}, s \in SUBSET StateTags},
        two \in {{}} \cup
            {{[key |-> c.object, item |-> c]} : c \in {i \in InputItems : i.object.id = Root}}}

InitState ==
    /\ by_id \in StateCaches
    /\ tasks = [t \in Tasks |-> Idle]
    /\ ret = Returned("new", None, None, 0)
    /\ event = None
    /\ handler = HandlerIdle(0)
    /\ said = None
    /\ seen = <<>>
    /\ cache_alive = TRUE

\* what a reader of the cache finds under the identity of the event once
\* the handler has returned result
SeenState(m, e, result) ==
    [item |-> IF from_event(e).ok THEN get(m, from_event(e).v) ELSE None,
     result |-> result]

\* state_changed::dispatch returns result, the last call having returned r
StateReturns(m, e, r, result) ==
    /\ by_id' = m
    /\ ret' = r
    /\ handler' = HandlerIdle(1)
    /\ seen' = <<SeenState(by_id, e, Ok("unit")), SeenState(m, e, result)>>

\* state_changed::dispatch to its return, or to the first await of focused
StateDispatch(e) ==
    /\ handler.pc = "idle"
    /\ handler.round = 0
    /\ event' = e
    /\ UNCHANGED <<tasks, said, cache_alive>>
    /\ LET a11y_state == ParseState(e.kind)
           state_value == e.enabled = 1
           a11y_prim == from_event(e)
           r == update_state(by_id, a11y_prim.v, a11y_state.v, state_value)
           updated == Returned("update_state",
                               [id |-> a11y_prim.v, state |-> a11y_state.v,
                                active |-> state_value],
                               Ok(r.value), r.calls)
       IN IF ~a11y_state.ok
          THEN StateReturns(by_id, e, Returned("dispatch", e, a11y_state, 0), a11y_state)
          ELSE IF ~a11y_prim.ok
          THEN StateReturns(by_id, e, Returned("from_event", e, a11y_prim, 0), a11y_prim)
          ELSE IF a11y_state.v = "Focused" /\ state_value
          THEN /\ by_id' = r.map
               /\ ret' = updated
               /\ handler' = [pc |-> "focused", round |-> 1, current_text |-> <<>>]
               /\ seen' = <<SeenState(by_id, e, Ok("unit"))>>
          ELSE StateReturns(r.map, e, updated, Ok("unit"))

\* what focused learns from the history and from the bus: whether the
\* object is the one focused last, whether a bus call fails, and the
\* name, role name and description
FocusReplies ==
    [current : BOOLEAN, fail : BOOLEAN, name : {"name"}, role : {"role"},
     description : {"description"}]

\* state_changed::focused, and the return of dispatch
Focused(reply) ==
    /\ handler.pc = "focused"
    /\ handler' = HandlerIdle(1)
    /\ UNCHANGED <<by_id, tasks, ret, event, cache_alive>>
    /\ IF reply.current
       THEN /\ seen' = Append(seen, SeenState(by_id, event, Ok("unit")))
            /\ UNCHANGED said
       ELSE IF reply.fail
       THEN /\ seen' = Append(seen, SeenState(by_id, event, Err("Zbus")))
            /\ UNCHANGED said
       ELSE /\ seen' = Append(seen, SeenState(by_id, event, Ok("unit")))
            /\ said' = Some([priority |-> "Text",
                             text |-> <<reply.name, ", ", reply.role, ". ",
                                        reply.description>>])

NextState ==
    \/ \E e \in StateChangedEvents : StateDispatch(e)
    \/ \E reply \in FocusReplies : Focused(reply)

SpecState == InitState /\ [][NextState]_vars

\* ------------------------------------------------------------------------
\* Properties of the state-changed handler and of from_event
\* ------------------------------------------------------------------------
\* C16: update_state on a cached item inserts the state when the event is
\* not enabled and removes it when it is, so {Enabled, Showing} stays as it
\* is under (Focused, 1) and gains Focused under (Focused, 0); on an item
\* that is not cached it returns false and changes nothing
C16_StatePolarity ==
    [][(handler.pc = "idle" /\ ret'.op = "update_state") =>
          LET id == ret'.arg.id
              state == ret'.arg.state
              enabled == event'.enabled = 1
          IN IF Entries(by_id, id) = {}
             THEN ret'.value = Ok(FALSE) /\ by_id' = by_id
             ELSE /\ ret'.value = Ok(TRUE)
                  /\ \A e \in Entries(by_id, id) :
                        /\ by_id' = (by_id \ {e}) \cup
                              {[e EXCEPT !.item.states =
                                    IF enabled THEN @ \ {state} ELSE @ \cup {state}]}
                        /\ (e.item.states = {"Enabled", "Showing"} /\ state = "Focused") =>
                              \A e2 \in Entries(by_id', id) :
                                 e2.item.states =
                                    IF enabled THEN {"Enabled", "Showing"}
                                    ELSE {"Enabled", "Showing", "Focused"}]_vars

\* (Focused, enabled=0) has been applied to states {Enabled, Showing}
C16_Witness ==
    /\ handler.pc = "idle"
    /\ handler.round = 1
    /\ ret.op = "update_state"
    /\ ret.value = Ok(TRUE)
    /\ event.kind = "focused"
    /\ event.enabled = 0
    /\ seen[1].item.some
    /\ seen[1].item.v.item.states = {"Enabled", "Showing"}
    /\ seen[2].item.v.item.states = {"Enabled", "Showing", "Focused"}

\* the step in which state_changed::dispatch has called from_event
FromEventCalled ==
    /\ handler.pc = "idle"
    /\ handler'.pc # "idle" \/ handler'.round = 1
    /\ ret'.op \in {"from_event", "update_state"}

\* what from_event does for the events that lack a sender or a path, for
\* those that have both, and to the cache
FromEventFrame ==
    LET e == event'
        failed == ret'.op = "from_event"
    IN /\ e.sender = Ok(None) => (failed /\ ret'.value = Err("NoSender"))
       /\ (e.sender = Ok(Some(EventSender)) /\ e.path = None) =>
             (failed /\ ret'.value = Err("NoPathId"))
       /\ ~failed <=> (/\ e.sender = Ok(Some(EventSender))
                       /\ e.path # None
                       /\ PathToId(e.path.v).ok)
       /\ ~failed => ret'.arg.id = [id |-> PathToId(e.path.v).v, sender |-> EventSender]
       /\ failed => by_id' = by_id

\* the event has a sender and a path, and the path names no accessible id
Malformed(e) ==
    /\ e.sender = Ok(Some(EventSender))
    /\ e.path # None
    /\ ~PathToId(e.path.v).ok

\* C20 as stated: from_event fails with NoSender without a sender, with
\* NoPathId without a path and with PathParse on a malformed path, succeeds
\* with (sender, id) only when both are there and well formed, and a
\* failure leaves the cache as it was
C20_FromEventErrors ==
    [][FromEventCalled =>
          /\ FromEventFrame
          /\ Malformed(event') => ret'.value = Err("PathParse")]_vars

\* C20 amended: as stated, except that a malformed path fails with the
\* Zvariant error of the path conversion
C20_FromEventZvariant ==
    [][FromEventCalled =>
          /\ FromEventFrame
          /\ Malformed(event') =>
                (ret'.op = "from_event" /\ ret'.value = Err("Zvariant"))]_vars

\* an event with a malformed path has been refused, the cache holding both
\* objects
C20_Witness ==
    /\ ret.op = "from_event"
    /\ ret.value = Err("Zvariant")
    /\ Malformed(event)
    /\ Cardinality(by_id) = 2

\* ------------------------------------------------------------------------
\* SpecCaret: text_caret_moved::new_position called once
\* ------------------------------------------------------------------------
\* str::is_char_boundary
IsCharBoundary(text, index) ==
    \E i \in 1..(Len(text) + 1) : ByteOffset(text, i) = index

\* str::get(from..to): the scalars of the byte range, None unless both ends
\* are character boundaries of text
StrGet(text, from, to) ==
    IF from <= to /\ IsCharBoundary(text, from) /\ IsCharBoundary(text, to)
    THEN LET InRange(pair) == pair[1] >= from /\ pair[1] < to
         IN Some(Collect(SelectSeq(CharIndices(text), InRange)))
    ELSE None

\* text_caret_moved::new_position: the String returned, or the panic of
\* Option::unwrap
new_position(new_item, old_item, new_pos, old_pos, new_text) ==
    LET abs_diff == IF new_pos < old_pos THEN old_pos - new_pos ELSE new_pos - old_pos
        char == StrGet(new_text, new_pos, new_pos + 1)
    IN IF new_item.object.id # old_item.object.id THEN Ok(<<>>)
       ELSE IF abs_diff = 1
       THEN (IF char.some THEN Ok(char.v) ELSE Err("panic"))
       ELSE Ok(<<>>)

\* A11Y_PARAGRAPH_STRING, cut after its first ten characters: "The AT-SPI"
A11Y_PARAGRAPH_STRING ==
    <<"T", "h", "e", " ", "A", "T", "-", "S", "P", "I">>

\* A11Y_PARAGRAPH_ITEM
A11Y_PARAGRAPH_ITEM ==
    CacheItem([id |-> Number(1), sender |-> ":1.2"], [id |-> Root, sender |-> ":1.2"],
              [id |-> Number(1), sender |-> ":1.2"], 323, 0,
              {"Accessible", "Collection", "Component", "Hyperlink", "Hypertext", "Text"},
              "Paragraph", {"Enabled", "Opaque", "Showing", "Visible"},
              A11Y_PARAGRAPH_STRING, <<>>, "weak")

\* ANSWER_VALUES without the expected answers
AnswerCalls ==
    {[new_item |-> A11Y_PARAGRAPH_ITEM, old_item |-> A11Y_PARAGRAPH_ITEM,
      new_position |-> c[1], old_position |-> c[2], new_text |-> A11Y_PARAGRAPH_STRING]
        : c \in {<<4, 3>>, <<3, 4>>, <<0, 3>>}}

\* the calls of new_position
CaretCalls ==
    [new_item : InputItems, old_item : InputItems, new_position : 0..MaxPos,
     old_position : 0..MaxPos, new_text : SeqsUpTo(Chars, MaxLen)]
    \cup AnswerCalls

InitCaret ==
    /\ by_id = {}
    /\ tasks = [t \in Tasks |-> Idle]
    /\ ret = Returned("new", None, None, 0)
    /\ event \in CaretCalls
    /\ handler = HandlerIdle(0)
    /\ said = None
    /\ seen = <<>>
    /\ cache_alive = TRUE

NewPosition ==
    /\ handler = HandlerIdle(0)
    /\ handler' = HandlerIdle(1)
    /\ ret' = Returned("new_position", event,
                       new_position(event.new_item, event.old_item, event.new_position,
                                    event.old_position, event.new_text), 0)
    /\ UNCHANGED <<by_id, tasks, event, said, seen, cache_alive>>

NextCaret == NewPosition

SpecCaret == InitCaret /\ [][NextCaret]_vars

\* ------------------------------------------------------------------------
\* Properties of new_position
\* ------------------------------------------------------------------------
\* new_position has returned or panicked for a call on one object
SameObjectCall ==
    /\ ret.op = "new_position"
    /\ ret.arg.new_item.object = ret.arg.old_item.object

\* the distance between the two caret positions of the call
Moved ==
    IF ret.arg.new_position < ret.arg.old_position
    THEN ret.arg.old_position - ret.arg.new_position
    ELSE ret.arg.new_position - ret.arg.old_position

\* C17: for a move of one position within an object new_position returns
\* the one character of the text at the new caret position ("A" at 4 and
\* " " at 3 of the paragraph); for two different objects it returns ""
C17_OneCharacter ==
    /\ (SameObjectCall /\ Moved = 1 /\ ret.arg.new_position < Len(ret.arg.new_text)) =>
          ret.value = Ok(<<ret.arg.new_text[ret.arg.new_position + 1]>>)
    /\ (ret.op = "new_position" /\ ret.arg.new_item.object # ret.arg.old_item.object) =>
          ret.value = Ok(<<>>)

\* C18: for a move of more than one position within an object new_position
\* returns the text between the two positions ("The" for 0 and 3 of the
\* paragraph)
C18_Span ==
    (SameObjectCall /\ Moved > 1
       /\ ret.arg.new_position <= Len(ret.arg.new_text)
       /\ ret.arg.old_position <= Len(ret.arg.new_text)) =>
          ret.value =
             Ok(SubSeq(ret.arg.new_text,
                       (IF ret.arg.new_position < ret.arg.old_position
                        THEN ret.arg.new_position ELSE ret.arg.old_position) + 1,
                       IF ret.arg.new_position < ret.arg.old_position
                       THEN ret.arg.old_position ELSE ret.arg.new_position))

\* C33: new_position returns a string, and does not abort, for every call
\* on one object whose positions differ by one and whose new position is
\* at most the number of scalars of the text, the end of the text and texts
\* with multi-byte characters included
C33_NoAbort ==
    (/\ SameObjectCall
     /\ Moved = 1
     /\ ret.arg.new_position <= Len(ret.arg.new_text)) =>
        ret.value.ok

\* ------------------------------------------------------------------------
\* SpecNav: the navigation methods of impl Accessible for CacheItem, called
\* on an item its holder keeps while the cache lives and after it is dropped
\* ------------------------------------------------------------------------
\* Option::ok_or
ok_or(opt, err) == IF opt.some THEN Ok(opt.v) ELSE Err(err)

\* strong_cache that hands out the map whether or not the cache is alive
strong_cache_unchecked(weak_cache, alive, m) == Ok(m)

\* strong_cache: Weak::upgrade on the back-reference; weak_cache is "weak"
\* for a reference to the cache and "unset" for Weak::new(), alive tells
\* whether an Arc<Cache> is left, m is the map of the cache
strong_cache(weak_cache, alive, m) ==
    IF weak_cache = "weak" /\ alive THEN Ok(m) ELSE Err("NotAvailable")

\* CacheItem::get_application
get_application(self, alive, m) ==
    LET derefed_cache == strong_cache(self.cache, alive, m)
    IN IF ~derefed_cache.ok THEN derefed_cache
       ELSE ok_or(get(derefed_cache.v, self.app), "NoItem")

\* CacheItem::parent
parent(self, alive, m) ==
    LET derefed_cache == strong_cache(self.cache, alive, m)
    IN IF ~derefed_cache.ok THEN derefed_cache
       ELSE ok_or(get(derefed_cache.v, self.parent), "NoItem")

\* CacheItem::get_children: collect() into a Result stops at the first Err
get_children(self, alive, m) ==
    LET derefed_cache == strong_cache(self.cache, alive, m)
        children == get_all(derefed_cache.v, self.children)
    IN IF ~derefed_cache.ok THEN derefed_cache
       ELSE IF \E i \in 1..Len(children) : ~children[i].some THEN Err("NoItem")
       ELSE Ok([i \in 1..Len(children) |-> children[i].v])

\* <[T]>::get(idx as usize): the conversion wraps a negative i32 to a value
\* of at least 2^64 - 2^31, past the end of every Vec
SliceGet(v, idx) == IF idx < 0 \/ idx >= Len(v) THEN None ELSE Some(v[idx + 1])

\* CacheItem::get_child_at_index
get_child_at_index(self, idx, alive, m) ==
    LET children == get_children(self, alive, m)
    IN IF ~children.ok THEN children
       ELSE ok_or(SliceGet(children.v, idx), "NoItem")

\* the fields of CacheItem that have no #[serde(skip)]
SerializedFields ==
    {"object", "app", "parent", "index", "children_num", "interfaces", "role",
     "states", "text", "children"}

\* derive(Serialize) for CacheItem: the map of the field names to the
\* values, without the skipped cache
serialize(item) == [f \in SerializedFields |-> item[f]]

\* derive(Deserialize) that attaches the item it reads to the cache
deserialize_attached(ser) ==
    Ok(CacheItem(ser["object"], ser["app"], ser["parent"], ser["index"],
                 ser["children_num"], ser["interfaces"], ser["role"], ser["states"],
                 ser["text"], ser["children"], "weak"))

\* derive(Deserialize) for CacheItem: every serialized field is required,
\* the skipped cache is Default::default(), that is Weak::new()
deserialize(ser) ==
    IF ~(SerializedFields \subseteq DOMAIN ser) THEN Err("SerdeError")
    ELSE Ok(CacheItem(ser["object"], ser["app"], ser["parent"], ser["index"],
                      ser["children_num"], ser["interfaces"], ser["role"], ser["states"],
                      ser["text"], ser["children"], "unset"))

\* the items a caller can hold: any parent and children, the back-reference
\* set by the cache or left empty by deserialization
NavItems ==
    {CacheItem(k, [id |-> Root, sender |-> k.sender], p, 0, Len(ch), {"Accessible"},
               "Paragraph", {}, <<"a">>, ch, w)
        : k \in AccessiblePrimitive, p \in AccessiblePrimitive,
          ch \in SeqsUpTo(AccessiblePrimitive, MaxChildren), w \in {"weak", "unset"}}

\* the caches the held item can belong to: each object cached or not
NavCaches == {{[key |-> c.object, item |-> c] : c \in S} : S \in SUBSET InputItems}

InitNav ==
    /\ by_id \in NavCaches
    /\ tasks = [t \in Tasks |-> Idle]
    /\ ret = Returned("new", None, None, 0)
    /\ event \in NavItems
    /\ handler = HandlerIdle(0)
    /\ said = None
    /\ seen = <<>>
    /\ cache_alive = TRUE

\* the last Arc<Cache> is dropped, and the map with it
DropCache ==
    /\ cache_alive
    /\ cache_alive' = FALSE
    /\ by_id' = {}
    /\ ret' = Returned("drop", None, None, 0)
    /\ UNCHANGED <<tasks, event, handler, said, seen>>

GetApplication ==
    /\ ret' = Returned("get_application", event, get_application(event, cache_alive, by_id), 0)
    /\ UNCHANGED <<by_id, tasks, event, handler, said, seen, cache_alive>>

Parent ==
    /\ ret' = Returned("parent", event, parent(event, cache_alive, by_id), 0)
    /\ UNCHANGED <<by_id, tasks, event, handler, said, seen, cache_alive>>

GetChildren ==
    /\ ret' = Returned("get_children", event, get_children(event, cache_alive, by_id), 0)
    /\ UNCHANGED <<by_id, tasks, event, handler, said, seen, cache_alive>>

\* the indexes callers pass: one below, and up to one past, the children
ChildIndexes == -1..MaxChildren

GetChildAtIndex(idx) ==
    /\ ret' = Returned("get_child_at_index", [self |-> event, idx |-> idx],
                       get_child_at_index(event, idx, cache_alive, by_id), 0)
    /\ UNCHANGED <<by_id, tasks, event, handler, said, seen, cache_alive>>

\* the holder serializes its item and keeps what it reads back
RoundTrip ==
    /\ ret' = Returned("deserialize", event, deserialize(serialize(event)), 0)
    /\ event' = IF ret'.value.ok THEN ret'.value.v ELSE event
    /\ UNCHANGED <<by_id, tasks, handler, said, seen, cache_alive>>

NextNav ==
    \/ DropCache
    \/ GetApplication
    \/ Parent
    \/ GetChildren
    \/ \E idx \in ChildIndexes : GetChildAtIndex(idx)
    \/ RoundTrip

SpecNav == InitNav /\ [][NextNav]_vars

\* ------------------------------------------------------------------------
\* Properties of the navigation methods
\* ------------------------------------------------------------------------
\* the identities the call that returned last had to resolve
Referenced ==
    CASE ret.op = "get_application" -> <<ret.arg.app>>
      [] ret.op = "parent" -> <<ret.arg.parent>>
      [] ret.op = "get_children" -> ret.arg.children

\* the copies of the cached items of Referenced
ReferencedCopies ==
    [i \in 1..Len(Referenced) |->
        [alias |-> {}, item |-> (CHOOSE e \in Entries(by_id, Referenced[i]) : TRUE).item]]

\* C19: get_application, parent and get_children return the cache-unavailable
\* error when the cache has been dropped or the back-reference is unset,
\* NoItem when the cache is alive and one of the identities they resolve is
\* not in it, and copies of the cached items otherwise
C19_Navigation ==
    ret.op \in {"get_application", "parent", "get_children"} =>
        IF ~cache_alive \/ ret.arg.cache = "unset"
        THEN ret.value = Err("NotAvailable")
        ELSE IF \E i \in 1..Len(Referenced) : Entries(by_id, Referenced[i]) = {}
        THEN ret.value = Err("NoItem")
        ELSE ret.value = Ok(IF ret.op = "get_children" THEN ReferencedCopies
                            ELSE ReferencedCopies[1])

\* get_children has been called on an item with children after the cache
\* was dropped
C19_Witness ==
    /\ ~cache_alive
    /\ ret.op = "get_children"
    /\ ret.arg.cache = "weak"
    /\ Len(ret.arg.children) = MaxChildren
    /\ ret.value = Err("NotAvailable")

C29_ChildAtIndex ==
    (/\ ret.op = "get_child_at_index"
     /\ cache_alive
     /\ ret.arg.self.cache = "weak") =>
        LET i == ret.arg.idx
            children == ret.arg.self.children
        IN IF 0 <= i /\ i < Len(children) /\ Entries(by_id, children[i + 1]) # {}
           THEN ret.value = Ok(get(by_id, children[i + 1]).v)
           ELSE ret.value = Err("NoItem")

\* ------------------------------------------------------------------------
\* SpecObject: object::dispatch handles one event of any member
\* ------------------------------------------------------------------------
\* ObjectEvents: the four members object::dispatch knows, with the kinds
\* their appliers know and one they do not, and a member it does not know
ObjectEvents ==
    [member : {"TextChanged"}, sender : {Ok(Some(EventSender))}, path : {Some(EventPath)},
     kind : Kinds, start_pos : {0}, length : {1}, text : {<<"a">>}]
    \cup [member : {"ChildrenChanged"}, sender : {Ok(Some(EventSender)), Ok(None)},
          path : {Some(p) : p \in Paths},
          kind : {"add", "add/system", "remove", "remove/system", "replace"}]
    \cup [member : {"TextCaretMoved"}, sender : {Ok(Some(EventSender))},
          path : {Some(EventPath)}, kind : {"", "insert"}, position : {0, 1}]
    \cup [member : {"StateChanged"}, sender : {Ok(Some(EventSender))},
          path : {Some(EventPath)}, kind : {"focused", "bogus"}, enabled : {0, 1}]
    \cup [member : {"PropertyChange"}, sender : {Ok(Some(EventSender))},
          path : {Some(EventPath)}, kind : {""}]

\* the events of one member
Member(name) == {e \in ObjectEvents : e.member = name}

InitObject ==
    /\ by_id \in NavCaches
    /\ tasks = [t \in Tasks |-> Idle]
    /\ ret = Returned("new", None, None, 0)
    /\ event = None
    /\ handler = HandlerIdle(0)
    /\ said = None
    /\ seen = <<>>
    /\ cache_alive = TRUE

\* a dispatch function starts on the event e
Dispatches(e) ==
    /\ handler.pc = "idle"
    /\ handler.round = 0
    /\ event' = e
    /\ UNCHANGED <<tasks, cache_alive>>

\* children_changed::remove that builds the future of Cache::remove and
\* drops it
children_changed_remove_dropped(m, e) ==
    LET prim == from_event(e)
    IN IF ~prim.ok
       THEN [map |-> m, ret |-> Returned("from_event", e, prim, 0), result |-> prim]
       ELSE [map |-> m, ret |-> Returned("remove", prim.v, None, 0), result |-> Ok("unit")]

\* children_changed::remove: the map afterwards, the call that returned
\* last and the result
children_changed_remove(m, e) ==
    LET prim == from_event(e)
    IN IF ~prim.ok
       THEN [map |-> m, ret |-> Returned("from_event", e, prim, 0), result |-> prim]
       ELSE [map |-> remove(m, prim.v),
             ret |-> Returned("remove", prim.v, by_id_get(m, prim.v), 0),
             result |-> Ok("unit")]

\* the match of children_changed::dispatch with remove as its last arm
children_changed_match_remove(kind) ==
    IF kind \in {"add/system", "add"} THEN "add" ELSE "remove"

\* the match of children_changed::dispatch on the kind of the event
children_changed_match(kind) ==
    CASE kind \in {"remove/system", "remove"} -> "remove"
      [] kind \in {"add/system", "add"} -> "add"
      [] OTHER -> "ignore"

\* children_changed::dispatch to its return (remove and the kinds it
\* ignores) or to the first await of add
ChildrenDispatch(e) ==
    /\ Dispatches(e)
    /\ UNCHANGED said
    /\ IF children_changed_match(e.kind) = "remove"
       THEN LET done == children_changed_remove(by_id, e)
            IN StateReturns(done.map, e, done.ret, done.result)
       ELSE IF children_changed_match(e.kind) = "add"
       THEN /\ handler' = [pc |-> "add", round |-> 1, current_text |-> <<>>]
            /\ seen' = <<SeenState(by_id, e, Ok("unit"))>>
            /\ UNCHANGED <<by_id, ret>>
       ELSE StateReturns(by_id, e, Returned("dispatch", e, Ok("unit"), 0), Ok("unit"))

\* children_changed::add from new_accessible on: the result of get_or_create
\* is dropped
ChildrenAdd(bus) ==
    /\ handler.pc = "add"
    /\ handler' = HandlerIdle(1)
    /\ UNCHANGED <<tasks, event, said, cache_alive>>
    /\ LET accessible == new_accessible(event)
           r == get_or_create(by_id, accessible.v, "weak", bus)
       IN IF ~accessible.ok
          THEN /\ ret' = Returned("new_accessible", event, accessible, 0)
               /\ seen' = Append(seen, SeenState(by_id, event, accessible))
               /\ UNCHANGED by_id
          ELSE /\ by_id' = r.map
               /\ ret' = Returned("get_or_create", accessible.v, r.value, 0)
               /\ seen' = Append(seen, SeenState(r.map, event, Ok("unit")))

\* what text_cursor_moved learns from ScreenReaderState and from the bus:
\* history_item(0), as an error, nothing, the object of the event or another
\* one; previous_caret_position; the answer of get_string_at_offset
CaretReplies ==
    [history_item : {"error", "none", "current", "other"},
     previous_caret_position : {0, 1},
     string_at_offset : {Ok(<<"a">>), Err("Zbus")}]

\* text_caret_moved::is_tab_navigation
is_tab_navigation(e, reply) ==
    IF e.position # 0 THEN Ok(FALSE)
    ELSE IF reply.history_item = "error" THEN Err("Zbus")
    ELSE IF reply.history_item = "none" THEN Ok(TRUE)
    ELSE IF ~new_accessible(e).ok THEN new_accessible(e)
    ELSE IF reply.previous_caret_position # 0 /\ reply.history_item = "current"
    THEN Ok(FALSE)
    ELSE Ok(TRUE)

\* text_caret_moved::dispatch to its return (a kind it ignores) or to the
\* first await of text_cursor_moved
CaretDispatch(e) ==
    /\ Dispatches(e)
    /\ UNCHANGED said
    /\ IF e.kind = ""
       THEN /\ handler' = [pc |-> "text_cursor_moved", round |-> 1, current_text |-> <<>>]
            /\ seen' = <<SeenState(by_id, e, Ok("unit"))>>
            /\ UNCHANGED <<by_id, ret>>
       ELSE StateReturns(by_id, e, Returned("dispatch", e, Ok("unit"), 0), Ok("unit"))

\* text_caret_moved::text_cursor_moved, and the return of dispatch
TextCursorMoved(reply) ==
    /\ handler.pc = "text_cursor_moved"
    /\ handler' = HandlerIdle(1)
    /\ UNCHANGED <<by_id, tasks, event, cache_alive>>
    /\ LET tab == is_tab_navigation(event, reply)
           text == IF ~new_accessible(event).ok THEN new_accessible(event)
                   ELSE reply.string_at_offset
           result == IF ~tab.ok THEN tab
                     ELSE IF tab.v THEN Ok("unit")
                     ELSE IF ~text.ok THEN text
                     ELSE Ok("unit")
       IN /\ ret' = Returned("text_cursor_moved", event, result, 0)
          /\ seen' = Append(seen, SeenState(by_id, event, result))
          /\ said' = IF tab.ok /\ ~tab.v /\ text.ok
                     THEN Some([priority |-> "Text", text |-> text.v])
                     ELSE said

\* object::dispatch on a member it has no applier for
OtherMember(e) ==
    /\ Dispatches(e)
    /\ UNCHANGED said
    /\ StateReturns(by_id, e, Returned("dispatch", e, Ok("unit"), 0), Ok("unit"))

\* another task edits the text of an entry while insert_or_delete waits for
\* get_attributes or for state.say
OtherTaskEdits(id, f) ==
    /\ handler.pc \in {"get_attributes", "say"}
    /\ ModifyItem(id, f)

NextObject ==
    \/ \E e \in Member("TextChanged") : TextDispatch(e)
    \/ \E bus \in BusReplies : FetchItem(bus)
    \/ \E attributes \in AttributeReplies : GetAttributes(attributes)
    \/ SpeakInsertion
    \/ Say
    \/ \E e \in Member("ChildrenChanged") : ChildrenDispatch(e)
    \/ \E bus \in BusReplies : ChildrenAdd(bus)
    \/ \E e \in Member("TextCaretMoved") : CaretDispatch(e)
    \/ \E reply \in CaretReplies : TextCursorMoved(reply)
    \/ \E e \in Member("StateChanged") : StateDispatch(e)
    \/ \E reply \in FocusReplies : Focused(reply)
    \/ \E e \in Member("PropertyChange") : OtherMember(e)
    \/ \E id \in AccessiblePrimitive, f \in TextClosures : OtherTaskEdits(id, f)

SpecObject == InitObject /\ [][NextObject]_vars

\* ------------------------------------------------------------------------
\* Properties of object::dispatch
\* ------------------------------------------------------------------------
\* the step in which a dispatch function starts on an event
Dispatched ==
    /\ handler.pc = "idle"
    /\ handler.round = 0
    /\ handler'.round = 1

\* the handler returns Ok in this step
ReturnsOk ==
    /\ handler'.pc = "idle"
    /\ seen'[Len(seen')].result = Ok("unit")

UnknownKind(e) ==
    CASE e.member = "TextChanged" ->
            e.kind \notin {"insert", "insert/system", "delete", "delete/system"}
      [] e.member = "ChildrenChanged" ->
            e.kind \notin {"add", "add/system", "remove", "remove/system"}
      [] e.member = "TextCaretMoved" -> e.kind # ""
      [] e.member = "StateChanged" -> FALSE
      [] OTHER -> TRUE

\* C28: an event whose kind its applier does not know, or whose member has
\* no applier, is ignored: the handler returns Ok in the step that delivers
\* it, nothing is said and the cache is as it was
C28_UnknownIgnored ==
    [][(Dispatched /\ UnknownKind(event')) =>
          /\ ReturnsOk
          /\ said' = None
          /\ by_id' = by_id]_vars

\* a children-changed event of a kind that is neither add nor remove has
\* been ignored on a cache that holds the object of the event
C28_Witness ==
    /\ handler = HandlerIdle(1)
    /\ UnknownKind(event)
    /\ event.member = "ChildrenChanged"
    /\ ret = Returned("dispatch", event, Ok("unit"), 0)
    /\ Cardinality(by_id) = 2
    /\ said = None

\* the fields neither applier writes
FrameFields ==
    {"object", "app", "parent", "index", "children_num", "interfaces", "role", "children"}

\* a step of the state-changed or of the text-changed applier for an event
\* whose identity is in the cache
ApplierStep ==
    /\ handler' # handler
    /\ event' # None
    /\ event'.member \in {"StateChanged", "TextChanged"}
    /\ from_event(event').ok
    /\ Entries(by_id, from_event(event').v) # {}

\* C32: an applier run for a cached identity k leaves every entry of
\* another identity as it was and keeps one entry under k, in which the
\* state applier changes at most states and the text applier at most text
C32_Frame ==
    [][ApplierStep =>
          LET k == from_event(event').v
          IN /\ {e \in by_id' : e.key # k} = {e \in by_id : e.key # k}
             /\ Cardinality(Entries(by_id', k)) = 1
             /\ \A old \in Entries(by_id, k), new \in Entries(by_id', k) :
                   /\ \A f \in FrameFields : new.item[f] = old.item[f]
                   /\ event'.member = "StateChanged" => new.item.text = old.item.text
                   /\ event'.member = "TextChanged" => new.item.states = old.item.states]_vars

\* the text applier has inserted into the entry of its object, next to the
\* entry of the other object
C32_Witness ==
    /\ handler = HandlerIdle(1)
    /\ event.member = "TextChanged"
    /\ ret.op = "modify_item"
    /\ ret.value = TRUE
    /\ seen[1].text = Some(<<"a">>)
    /\ CachedText(by_id, event) # seen[1].text
    /\ Cardinality(by_id) = 2

\* the step in which insert_or_delete evaluates its guard, edits and returns
\* for an insert event
InsertDecided ==
    /\ handler.pc \in {"speak_insertion", "say"}
    /\ handler'.pc = "idle"
    /\ event.member = "TextChanged"

\* C31: the text an insert event leaves is the one its guard and its edit
\* give for the text the entry holds when modify_item is called, whatever
\* another task did to the entry while the handler was suspended
C31_GuardOnLiveText ==
    [][InsertDecided => TextAfter = Some(InsertOutcome(TextBefore, event))]_vars

\* ------------------------------------------------------------------------
\* SpecMain: main from its try_join! of the signal watcher and the four
\* listeners to its return
\* ------------------------------------------------------------------------
\* the events a listener handles before the interrupt
MaxEvents == 1

\* the futures main joins
Listeners ==
    {"atspi_event_receiver", "atspi_event_processor", "odilia_event_receiver",
     "odilia_event_processor"}
Joined == Listeners \cup {"signal_receiver"}

\* the listeners whose result main keeps (map(|r| r.wrap_err(..))); the
\* result of the other two is replaced by Ok (map(|_| Ok(())))
Fallible == {"odilia_event_receiver", "odilia_event_processor"}

\* main has subscribed a receiver of shutdown_tx for every listener and is
\* about to poll try_join!
InitMain ==
    /\ tasks = [t \in Joined \cup {"main"} |->
                  IF t = "main" THEN [pc |-> "try_join"]
                  ELSE IF t = "signal_receiver" THEN [pc |-> "start"]
                  ELSE [pc |-> "running", shutdown_rx |-> <<>>, handled |-> 0]]
    /\ ret = Returned("subscribe", None, None, 0)
    /\ seen = <<>>
    /\ by_id = {}
    /\ event = None
    /\ handler = HandlerIdle(0)
    /\ said = None
    /\ cache_alive = TRUE

\* one of the joined futures returns Err: try_join! drops the others and
\* main returns the error through ?
TryJoinFails(t, err) ==
    /\ tasks' = [u \in DOMAIN tasks |->
                   IF u = t THEN [tasks[u] EXCEPT !.pc = "failed"]
                   ELSE IF u = "main" THEN [pc |-> "returned"]
                   ELSE IF tasks[u].pc = "stopped" THEN tasks[u]
                   ELSE [tasks[u] EXCEPT !.pc = "dropped"]]
    /\ ret' = Returned("main", t, Err(err), 0)
    /\ UNCHANGED <<by_id, event, handler, said, seen, cache_alive>>

\* sigterm_signal_watcher to c.recv().await: signal() registers the handler
\* or fails
SignalRegister(ok) ==
    /\ tasks["main"].pc = "try_join"
    /\ tasks["signal_receiver"].pc = "start"
    /\ IF ok
       THEN /\ tasks' = [tasks EXCEPT !["signal_receiver"].pc = "watching"]
            /\ ret' = Returned("signal", None, Ok("unit"), 0)
            /\ UNCHANGED <<by_id, event, handler, said, seen, cache_alive>>
       ELSE TryJoinFails("signal_receiver", "Could not process signal shutdown.")

\* the interrupt signal arrives
Interrupt ==
    /\ tasks["signal_receiver"].pc = "watching"
    /\ tasks' = [tasks EXCEPT !["signal_receiver"].pc = "signalled"]
    /\ ret' = Returned("recv", None, Some("interrupt"), 0)
    /\ event' = Some("interrupt")
    /\ UNCHANGED <<by_id, handler, said, seen, cache_alive>>

\* sigterm_signal_watcher from c.recv() on: shutdown_tx.send(0) puts the
\* value in the queue of every receiver subscribed, and the watcher returns
SigtermSignalWatcher ==
    /\ tasks["main"].pc = "try_join"
    /\ tasks["signal_receiver"].pc = "signalled"
    /\ tasks' = [u \in DOMAIN tasks |->
                   IF u = "signal_receiver" THEN [pc |-> "stopped"]
                   ELSE IF u \in Listeners
                   THEN [tasks[u] EXCEPT !.shutdown_rx = Append(@, 0)]
                   ELSE tasks[u]]
    /\ ret' = Returned("send", 0, Ok(Cardinality(Listeners)), 0)
    /\ UNCHANGED <<by_id, event, handler, said, seen, cache_alive>>

\* a listener handles an event
ListenerHandles(t) ==
    /\ tasks["main"].pc = "try_join"
    /\ tasks[t].pc = "running"
    /\ tasks[t].shutdown_rx = <<>>
    /\ tasks[t].handled < MaxEvents
    /\ tasks' = [tasks EXCEPT ![t].handled = @ + 1]
    /\ ret' = Returned("handle", t, Ok("unit"), 0)
    /\ UNCHANGED <<by_id, event, handler, said, seen, cache_alive>>

\* a listener takes the shutdown value from its receiver and returns
ListenerStops(t) ==
    /\ tasks["main"].pc = "try_join"
    /\ tasks[t].pc = "running"
    /\ tasks[t].shutdown_rx # <<>>
    /\ tasks' = [tasks EXCEPT ![t].pc = "stopped", ![t].shutdown_rx = Tail(@)]
    /\ ret' = Returned("shutdown", t, Ok("unit"), 0)
    /\ UNCHANGED <<by_id, event, handler, said, seen, cache_alive>>

\* a listener whose result main keeps returns an error
ListenerFails(t) ==
    /\ tasks["main"].pc = "try_join"
    /\ tasks[t].pc = "running"
    /\ TryJoinFails(t, "Could not process Odilia events")

\* try_join! returns Ok when the five futures have returned Ok
TryJoinReturns ==
    /\ tasks["main"].pc = "try_join"
    /\ \A t \in Joined : tasks[t].pc = "stopped"
    /\ tasks' = [tasks EXCEPT !["main"].pc = "close_speech"]
    /\ ret' = Returned("try_join", None, Ok("unit"), 0)
    /\ UNCHANGED <<by_id, event, handler, said, seen, cache_alive>>

\* state.close_speech().await and the return of main
CloseSpeech(stopped) ==
    /\ tasks["main"].pc = "close_speech"
    /\ tasks' = [tasks EXCEPT !["main"].pc = "returned"]
    /\ seen' = Append(seen, [call |-> "close_speech", result |-> stopped])
    /\ ret' = Returned("main", None, Ok("unit"), 0)
    /\ UNCHANGED <<by_id, event, handler, said, cache_alive>>

NextMain ==
    \/ \E ok \in BOOLEAN : SignalRegister(ok)
    \/ Interrupt
    \/ SigtermSignalWatcher
    \/ \E t \in Listeners : ListenerHandles(t)
    \/ \E t \in Listeners : ListenerStops(t)
    \/ \E t \in Fallible : ListenerFails(t)
    \/ TryJoinReturns
    \/ \E stopped \in BOOLEAN : CloseSpeech(stopped)

SpecMain == InitMain /\ [][NextMain]_vars

\* ------------------------------------------------------------------------
\* Properties of the shutdown
\* ------------------------------------------------------------------------
\* close_speech has been called
SpeechClosed == \E i \in 1..Len(seen) : seen[i].call = "close_speech"

\* the interrupt signal has been received
Interrupted == event = Some("interrupt")

\* the shutdown value has been sent
Broadcast == tasks["signal_receiver"].pc = "stopped"

\* no listener is running any more
ListenersEnded == \A t \in Listeners : tasks[t].pc # "running"

\* C30: the shutdown value sent on the interrupt reaches every listener
\* that is still running, close_speech is called only when all listeners
\* have stopped, and once the interrupt has been received it has been
\* called whenever the listeners have ended and main has returned
C30_ShutdownThenCleanup ==
    /\ Broadcast =>
          \A t \in Listeners : tasks[t].pc = "running" => tasks[t].shutdown_rx = <<0>>
    /\ SpeechClosed => \A t \in Listeners : tasks[t].pc = "stopped"
    /\ (Interrupted /\ ListenersEnded /\ tasks["main"].pc = "returned") => SpeechClosed

====
